---- MODULE Spec2Model ----
(***************************************************************************)
(* tritongrader: the Autograder orchestrator (autograder.py) and the test  *)
(* case variants it sequences (basic_test_case.py, io_test_case.py,        *)
(* static_analysis_test_case.py).                                          *)
(*                                                                         *)
(* Python values are modelled as follows.                                  *)
(*   Optional[int]        a set with at most one element ({} is None)      *)
(*   result.passed        "None", "True" or "False" (tri-state)            *)
(*   result.crash         TRUE when an OSError object is stored in it      *)
(*   text (str)           a sequence of tokens; == is sequence equality    *)
(*   an object reference  the index of the object in test_cases (0 = None) *)
(***************************************************************************)
EXTENDS Integers, Sequences, FiniteSets, TLC

VARIABLES
    test_cases,                     \* Autograder.test_cases
    missing_files_check_test_case,  \* index of the gate in test_cases, 0 = None
    build_test_case,                \* index of the gate in test_cases, 0 = None
    include_check_test_case,        \* index of the gate in test_cases, 0 = None
    status,                         \* where Autograder.execute() is
    pc,                             \* index of the next test of the for loop
    cwd,                            \* process working directory
    saved_cwd,                      \* the local variable cwd of Autograder.execute
    report_file,                    \* ValgrindResult.xml in the sandbox directory
    executed,                       \* what the current call has executed, in order:
                                    \* index, outcome met, exception escaped, result,
                                    \* ValgrindResult.xml after the test
    ran_before,                     \* indices with has_run set when the call started
    aborted_at,                     \* index of the gate that broke the loop, 0 = none
    formatter,                      \* the GradescopeResultsFormatter of the grading
                                    \* script, NoFormatter before it is created
    harness,                        \* the process running wrappers/harness.py
    loader,                         \* the last call of IOTestCaseBulkLoader.add
    required_files,                 \* Autograder.required_files
    supplied_files,                 \* Autograder.supplied_files
    sandbox,                        \* the directory Autograder.sandbox names
    ansi_diff                       \* an AnsiDiff and the two files it is built on

vars == <<test_cases, missing_files_check_test_case, build_test_case,
          include_check_test_case, status, pc, cwd, saved_cwd, report_file,
          executed, ran_before, aborted_at, formatter, harness,
                   loader, required_files, supplied_files, sandbox, ansi_diff>>

---------------------------------------------------------------------------
(* Bounds of the model *)

MaxUserTests == 2      \* add_test calls made after construction
MaxPoints == 1         \* largest point value configured
MaxGenerations == 2    \* forks below the target program
MaxBulkTests == 1      \* tests added to the Autograder of the bulk loader
MaxFileLen == 3        \* characters of a file given to AnsiDiff

---------------------------------------------------------------------------
(* Values the environment can produce *)

ExitStatuses == {0, 1}

\* expected-stdout and expected-stderr fixture files of an IO test
ExpStdoutFile == <<"a">>
ExpStderrFile == <<>>

\* what the submission's program can print
StdoutTexts == {<<"a">>, <<"a", "\n">>}
StderrTexts == {<<>>, <<"e">>}

\* what gcc -M can print for the source files
DepListings == {<<"/usr/include/stdio.h">>,
                <<"/usr/include/stdio.h", "/usr/include/string.h">>}

SubmissionCommand == "./submission"
ListDepsCommand == "gcc -M  submission.c"

\* what a command can print on stdout: the submission's program and gcc -M
\* as above, any other command (a compiler, a linter) nothing
StdoutOf(command) ==
    CASE command = SubmissionCommand -> StdoutTexts
      [] command = ListDepsCommand -> DepListings
      [] OTHER -> {<<>>}

RequiredFiles == {"submission.c"}

\* the names a submission can hold
SubmittedNames == RequiredFiles \cup {"Makefile", "lib"}

\* what the tests directory of the instructor holds besides the test files:
\* a file and a directory
SuppliedItems == {"Makefile", "lib"}
Directories == {"lib"}

\* the expected-exit-status file of a bulk-loaded test: absent, or holding
\* an integer
StatusFiles == {{}} \cup {{st} : st \in ExitStatuses}

\* contents of ValgrindResult.xml
NoReport == [state |-> "missing", errs |-> 0, leaks |-> 0, signal |-> FALSE]
BadReport == [state |-> "malformed", errs |-> 0, leaks |-> 0, signal |-> FALSE]
GoodReports == [state : {"ok"}, errs : 0..1, leaks : 0..1, signal : BOOLEAN]
WrittenReports == GoodReports \cup {BadReport}

---------------------------------------------------------------------------
(* TestResultBase, CommandRunner: their source files are not part of src/ *)

\* TestResultBase.__init__ and the fields the result subclasses add
FreshResult ==
    [has_run |-> FALSE, passed |-> "None", score |-> 0, timed_out |-> FALSE,
     crash |-> FALSE, error |-> FALSE,
     exit_status |-> {},            \* IOTestResult.exit_status, retcode
     stdout |-> <<>>, stderr |-> <<>>,
     output_correct |-> FALSE, valparse_out |-> {},
     output |-> <<>>]               \* CustomTestResult.output

\* a test case whose runner attribute is None
NoRunner ==
    [present |-> FALSE, student |-> FALSE, exit_status |-> {}, stdout |-> <<>>, stderr |-> <<>>]

\* CommandRunner(..., student=student) before run() has completed
NewRunner(student) ==
    [present |-> TRUE, student |-> student, exit_status |-> {}, stdout |-> <<>>, stderr |-> <<>>]

\* CommandRunner after run() returned
RanRunner(runner, o) ==
    [runner EXCEPT !.exit_status = {o.status}, !.stdout = o.stdout, !.stderr = o.stderr]

\* CommandRunner.run: the command is spawned under the privilege-drop
\* launcher exactly when the runner was built with student = True
through_launcher(runner) == runner.present /\ runner.student

\* CommandRunner.check_stdout / check_stderr: exact comparison with the file
check_output(actual, expected_file) == actual = expected_file

\* what one execution meets: type is
\*   "exit"      the command ran to completion
\*   "timeout"   CommandRunner.run() raised subprocess.TimeoutExpired
\*   "oserror"   CommandRunner.run() raised OSError
\*   "exception" any other exception raised while grading
\*   "nocmd"     the command file of an IO test cannot be opened (OSError)
\*   "check"     the predicate of a custom test ran
Outcome(type, st, out, err, rep, miss) ==
    [type |-> type, status |-> st, stdout |-> out, stderr |-> err,
     report |-> rep, missing |-> miss]

Failure(type) == Outcome(type, 0, <<>>, <<>>, NoReport, {})

\* the exception a failed execution raises inside the test case
Raised(o) ==
    CASE o.type = "timeout" -> "TimeoutExpired"
      [] o.type \in {"oserror", "nocmd"} -> "OSError"
      [] OTHER -> "Exception"

\* Python bool as the tri-state value of result.passed
Tri(b) == IF b THEN "True" ELSE "False"

\* the value a test case's execute() hands back to the model: the test case
\* after the call and the exception that left execute(), "none" on return
Returned(t) == [tc |-> t, exc |-> "none"]
Escaped(t, e) == [tc |-> t, exc |-> e]

---------------------------------------------------------------------------
(* Test case constructors *)

TestCase(kind, command, name, point_value) ==
    [kind |-> kind, command |-> command, name |-> name, point_value |-> point_value,
     expected_retcode |-> 0, exp_exit_status |-> {},
     point_value_correct_out |-> 0, point_value_valgrind |-> 0,
     prohibited_headers |-> {}, student |-> TRUE,
     exit_status |-> {},            \* the attribute self.exit_status
     result |-> FreshResult, runner |-> NoRunner]

\* the value of the parameter student when the grading script gives none
BasicTestCase_student == TRUE
IOTestCase_student == TRUE
StaticAnalysisTestCase_student == TRUE

\* CustomTestCase(func, name, point_value)
CustomTestCase(name, point_value) == TestCase("Custom", "", name, point_value)

\* BasicTestCase.__init__
BasicTestCase(command, name, point_value, expected_retcode, student) ==
    [TestCase("Basic", command, name, point_value) EXCEPT
        !.expected_retcode = expected_retcode, !.student = student]

\* IOTestCase.__init__
IOTestCase(name, point_value, valgrind_point_value, exp_exit_status, student) ==
    [TestCase("IO", SubmissionCommand, name, point_value + valgrind_point_value) EXCEPT
        !.exp_exit_status = exp_exit_status,
        !.point_value_correct_out = point_value,
        !.point_value_valgrind = valgrind_point_value,
        !.student = student]

\* StaticAnalysisTestCase.__init__; the evaluator is HeaderCheckTestCase._evaluate
\* bound to the set of headers it rejects
StaticAnalysisTestCase(command, evaluator, name, point_value, student) ==
    [TestCase("Static", command, name, point_value) EXCEPT
        !.prohibited_headers = evaluator, !.student = student]

\* HeaderCheckTestCase.__init__
HeaderCheckTestCase(prohibited_headers) ==
    StaticAnalysisTestCase(ListDepsCommand, prohibited_headers,
                           "Check included headers", 0, StaticAnalysisTestCase_student)

---------------------------------------------------------------------------
(* CustomTestCase with the missing-files predicate *)

\* check_missing_files(result): missing is the set of required files that
\* os.path.exists does not find in the submission
check_missing_files(result, missing) ==
    IF missing = {}
    THEN [result EXCEPT !.output = <<"All required files have been located.">>,
                        !.passed = "True"]
    ELSE [result EXCEPT !.output = <<"Missing files">>, !.passed = "False"]

\* CustomTestCase.execute
CustomTestCase_execute(t, o) ==
    LET r0 == [FreshResult EXCEPT !.has_run = TRUE]
        r1 == check_missing_files(r0, o.missing)
        r2 == [r1 EXCEPT !.score = IF r1.passed = "True" THEN t.point_value ELSE 0]
    IN  Returned([t EXCEPT !.result = r2])

---------------------------------------------------------------------------
(* BasicTestCase *)

\* BasicTestCase._execute comparing the exit status with 0
BasicTestCase__execute_zero(t, o) ==
    LET t1 == [t EXCEPT !.result.has_run = TRUE, !.runner = NewRunner(t.student)]
    IN  IF o.type = "exit"
        THEN LET passed == (o.status = 0)
             IN  Returned([t1 EXCEPT
                     !.runner = RanRunner(t1.runner, o),
                     !.result.passed = Tri(passed),
                     !.result.score = IF passed THEN t.point_value ELSE 0])
        ELSE Escaped(t1, Raised(o))

\* BasicTestCase._execute
BasicTestCase__execute(t, o) ==
    LET t1 == [t EXCEPT !.result.has_run = TRUE, !.runner = NewRunner(t.student)]
    IN  IF o.type = "exit"
        THEN LET passed == (o.status = t.expected_retcode)
             IN  Returned([t1 EXCEPT
                     !.runner = RanRunner(t1.runner, o),
                     !.result.passed = Tri(passed),
                     !.result.score = IF passed THEN t.point_value ELSE 0])
        ELSE Escaped(t1, Raised(o))

\* BasicTestCase.execute
BasicTestCase_execute(t, o) ==
    LET x == BasicTestCase__execute([t EXCEPT !.result = FreshResult], o)
    IN  CASE x.exc = "none" -> x
          [] x.exc = "TimeoutExpired" ->
                Returned([x.tc EXCEPT !.result.timed_out = TRUE])
          [] x.exc = "OSError" ->
                Returned([x.tc EXCEPT !.result.crash = TRUE, !.exit_status = {}])
          [] OTHER ->
                Returned([x.tc EXCEPT !.result.error = TRUE, !.exit_status = {}])

---------------------------------------------------------------------------
(* IOTestCase *)

\* IOTestCase.get_execute_command: TRUE when the command is prefixed by valgrind
get_execute_command(t) == t.point_value_valgrind > 0

\* check_valgrind_result taking a report it cannot parse for a clean one
check_valgrind_result_clean_default(result, file) ==
    IF file.state = "ok"
    THEN [result |-> [result EXCEPT !.valparse_out = {file}],
          value |-> ~(file.errs > 0 \/ file.leaks > 0 \/ file.signal)]
    ELSE [result |-> result, value |-> TRUE]

\* check_valgrind_result without the hasFatalSignal() test
check_valgrind_result_no_signal(result, file) ==
    IF file.state = "ok"
    THEN [result |-> [result EXCEPT !.valparse_out = {file}],
          value |-> ~(file.errs > 0 \/ file.leaks > 0)]
    ELSE [result |-> [result EXCEPT !.error = TRUE], value |-> FALSE]

\* IOTestCase.check_valgrind_result: the result after the call and the value returned
check_valgrind_result(result, file) ==
    IF file.state = "ok"
    THEN [result |-> [result EXCEPT !.valparse_out = {file}],
          value |-> ~(file.errs > 0 \/ file.leaks > 0 \/ file.signal)]
    ELSE [result |-> [result EXCEPT !.error = TRUE], value |-> FALSE]

\* result.output_correct ignoring stderr
io_output_correct_no_stderr(stdout_check, stderr_check, st) == stdout_check /\ st

\* IOTestCase.execute: result.output_correct
io_output_correct(stdout_check, stderr_check, st) == stdout_check /\ stderr_check /\ st

\* result.passed ignoring the memory analysis
io_passed_no_valgrind(output_correct, valgrind_check) == output_correct

\* IOTestCase.execute: result.passed
io_passed(output_correct, valgrind_check) == output_correct /\ valgrind_check

\* result.score adding the whole point value for a passed test
io_score_total(t, output_correct, passed) ==
    (IF output_correct THEN t.point_value_correct_out ELSE 0)
    + (IF passed THEN t.point_value ELSE 0)

\* IOTestCase.execute: result.score
io_score(t, output_correct, passed) ==
    (IF output_correct THEN t.point_value_correct_out ELSE 0)
    + (IF passed THEN t.point_value_valgrind ELSE 0)

\* IOTestCase.execute, the statements of the try block after runner.run()
IOTestCase_grade(t, file) ==
    LET stdout_check == check_output(t.runner.stdout, ExpStdoutFile)
        stderr_check == check_output(t.runner.stderr, ExpStderrFile)
        vg == IF t.point_value_valgrind = 0
              THEN [result |-> t.result, value |-> TRUE]
              ELSE check_valgrind_result(t.result, file)
        st == IF t.exp_exit_status # {}
              THEN t.exp_exit_status = t.runner.exit_status
              ELSE TRUE
        output_correct == io_output_correct(stdout_check, stderr_check, st)
        passed == io_passed(output_correct, vg.value)
        score == io_score(t, output_correct, passed)
    IN  [t EXCEPT !.exit_status = t.runner.exit_status,
                  !.result = [vg.result EXCEPT
                                 !.exit_status = t.runner.exit_status,
                                 !.output_correct = output_correct,
                                 !.passed = Tri(passed),
                                 !.score = score]]

\* IOTestCase.execute: file is ValgrindResult.xml before the call; the value
\* holds the test case after the call and the file after the call
IOTestCase_execute(t, o, file) ==
    LET t0 == [t EXCEPT !.result = [FreshResult EXCEPT !.has_run = TRUE]]
        valgrind == get_execute_command(t)
        t1 == [t0 EXCEPT !.runner = NewRunner(t.student)]
    IN  CASE o.type = "nocmd" ->
                [tc |-> [t0 EXCEPT !.result.crash = TRUE, !.exit_status = {}],
                 exc |-> "none", file |-> file]
          [] o.type = "timeout" ->
                [tc |-> [t1 EXCEPT !.result.timed_out = TRUE, !.exit_status = {}],
                 exc |-> "none", file |-> IF valgrind THEN BadReport ELSE file]
          [] o.type = "oserror" ->
                [tc |-> [t1 EXCEPT !.result.crash = TRUE, !.exit_status = {}],
                 exc |-> "none", file |-> file]
          [] o.type = "exit" ->
                LET after == IF valgrind THEN o.report ELSE file
                IN  [tc |-> IOTestCase_grade([t1 EXCEPT !.runner = RanRunner(t1.runner, o)], after),
                     exc |-> "none", file |-> after]
          [] OTHER ->
                [tc |-> [t1 EXCEPT !.result.error = TRUE, !.exit_status = {}],
                 exc |-> "none", file |-> file]

---------------------------------------------------------------------------
(* StaticAnalysisTestCase and HeaderCheckTestCase *)

\* the path HeaderCheckTestCase._evaluate looks for
HeaderPath(header) == "/usr/include/" \o header

\* HeaderCheckTestCase._evaluate: the headers it can raise ValueError for
\* ({} when it returns without raising)
HeaderCheck_evaluate(t, gcc_stdout) ==
    {h \in t.prohibited_headers :
        \E i \in 1..Len(gcc_stdout) : gcc_stdout[i] = HeaderPath(h)}

\* StaticAnalysisTestCase._execute
StaticAnalysisTestCase__execute(t, o) ==
    LET t1 == [t EXCEPT !.result.has_run = TRUE, !.runner = NewRunner(t.student)]
    IN  IF o.type # "exit" THEN Escaped(t1, Raised(o))
        ELSE
        LET t2 == [t1 EXCEPT !.runner = RanRunner(t1.runner, o)]
            r3 == IF t2.runner.exit_status # {0}
                  THEN [t2.result EXCEPT !.passed = "False", !.error = TRUE]
                  ELSE t2.result
            r4 == [r3 EXCEPT !.exit_status = t2.runner.exit_status,
                             !.stderr = t2.runner.stderr]
            banned == HeaderCheck_evaluate(t, r4.stdout)
            r5 == IF banned = {}
                  THEN [r4 EXCEPT !.passed = "True", !.error = FALSE]
                  ELSE [r4 EXCEPT !.passed = "False",
                                  !.stderr = <<CHOOSE h \in banned : TRUE>>]
        IN  Returned([t2 EXCEPT !.result = r5])

\* StaticAnalysisTestCase.execute without the except clause
StaticAnalysisTestCase_execute_no_except(t, o) ==
    StaticAnalysisTestCase__execute([t EXCEPT !.result = FreshResult], o)

\* StaticAnalysisTestCase.execute
StaticAnalysisTestCase_execute(t, o) ==
    LET x == StaticAnalysisTestCase__execute([t EXCEPT !.result = FreshResult], o)
    IN  IF x.exc = "TimeoutExpired"
        THEN Returned([x.tc EXCEPT !.result.timed_out = TRUE])
        ELSE x

---------------------------------------------------------------------------
(* One call of test.execute(), dispatched on the class of the test *)

Failures == {Failure("timeout"), Failure("oserror"), Failure("exception")}

\* what the environment can answer to one execution of test case t
Outcomes(t) ==
    CASE t.kind = "Custom" ->
            {Outcome("check", 0, <<>>, <<>>, NoReport, m) : m \in SUBSET RequiredFiles}
      [] t.kind = "Basic" ->
            Failures \cup
            {Outcome("exit", s, out, <<>>, NoReport, {}) :
                s \in ExitStatuses, out \in StdoutOf(t.command)}
      [] t.kind = "IO" ->
            Failures \cup {Failure("nocmd")} \cup
            {Outcome("exit", s, out, err, rep, {}) :
                s \in ExitStatuses, out \in StdoutOf(t.command), err \in StderrTexts,
                rep \in IF get_execute_command(t) THEN WrittenReports ELSE {NoReport}}
      [] OTHER ->
            Failures \cup
            {Outcome("exit", s, out, <<>>, NoReport, {}) :
                s \in ExitStatuses, out \in StdoutOf(t.command)}

\* test.execute(): the test case after the call, the exception that escaped
\* and ValgrindResult.xml after the call
execute(t, o, file) ==
    CASE t.kind = "Custom" ->
            [tc |-> CustomTestCase_execute(t, o).tc, exc |-> "none", file |-> file]
      [] t.kind = "Basic" ->
            [tc |-> BasicTestCase_execute(t, o).tc, exc |-> "none", file |-> file]
      [] t.kind = "IO" -> IOTestCase_execute(t, o, file)
      [] OTHER ->
            LET x == StaticAnalysisTestCase_execute(t, o)
            IN  [tc |-> x.tc, exc |-> x.exc, file |-> file]

---------------------------------------------------------------------------
(* Autograder *)

AutograderName == "Test Autograder"
BuildCommand == "gcc -Wall -Werror -o submission submission.c"

\* Autograder.create_sandbox_directory: an empty directory that the
\* constructor hands to the student account
create_sandbox_directory ==
    [owner |-> "student", files |-> {},
     submitted |-> {}]              \* what the submission held at the last copy

\* the value of a copy: the sandbox after it and the exception it raised
Copied(sb) == [sb |-> sb, exc |-> "none"]

\* copy2sandbox leaving alone a name that the sandbox has already
copy2sandbox_keep(sb, src_dir, item) ==
    IF \E f \in sb.files : f.name = item
    THEN [sb |-> sb, exc |-> "none"]
    ELSE [sb |-> [sb EXCEPT !.files = sb.files \cup
                    {[name |-> item, origin |-> src_dir, owner |-> "root"]}],
          exc |-> "none"]

\* Autograder.copy2sandbox for an item that src_dir holds: shutil.copy2
\* writes a file, over the file of that name when there is one (which keeps
\* its owner), and shutil.copytree makes a directory and raises
\* FileExistsError when the sandbox has the name already; what the
\* autograder process creates belongs to root
copy2sandbox(sb, src_dir, item) ==
    LET old == {f \in sb.files : f.name = item}
    IN  IF item \in Directories /\ old # {}
        THEN [sb |-> sb, exc |-> "FileExistsError"]
        ELSE Copied([sb EXCEPT !.files = (sb.files \ old) \cup
                {[name |-> item, origin |-> src_dir,
                  owner |-> IF old = {} THEN "root"
                            ELSE (CHOOSE f \in old : TRUE).owner]}])

\* the loop of copy_submission_files and of copy_supplied_files over the
\* items that src_dir holds; an exception ends it
RECURSIVE copy_files(_, _, _)
copy_files(sb, src_dir, items) ==
    IF items = {} THEN Copied(sb)
    ELSE LET item == CHOOSE i \in items : TRUE
             c == copy2sandbox(sb, src_dir, item)
         IN  IF c.exc # "none" THEN c ELSE copy_files(c.sb, src_dir, items \ {item})

\* Autograder.copy_submission_files: found is the set of names that are a
\* file of the submission; copy2sandbox does nothing for the others
copy_submission_files(sb, required, found) ==
    copy_files(sb, "submission", required \cap found)

\* Autograder.copy_supplied_files
copy_supplied_files(sb, supplied) == copy_files(sb, "tests", supplied)

\* give_student_perms leaving the owners as they are
give_student_perms_none(sb) == sb

\* Autograder.give_student_perms
give_student_perms(sb) ==
    [sb EXCEPT !.files = {[f EXCEPT !.owner = "student"] : f \in sb.files}]

\* Autograder.add_test
add_test(tests, test_case) ==
    Append(tests, [test_case EXCEPT !.name = AutograderName \o ": " \o test_case.name])

\* Autograder.io_tests_bulk_loader: IOTestCaseBulkLoader.__init__ with the
\* directory of the expected-exit-status files set (the given one, or "exp"
\* under tests_path) and the default prefix "status-"
io_tests_bulk_loader ==
    [expected_exit_status_path |-> {"exp"}, expected_exit_status_prefix |-> {"status-"}]

\* IOTestCaseBulkLoader.add: file is the content of the status file of the
\* test name, {} when there is no such file, which open() answers with
\* FileNotFoundError
IOTestCaseBulkLoader_add(ld, tests, name, point_value, valgrind_point_value, file) ==
    IF ld.expected_exit_status_path # {} /\ ld.expected_exit_status_prefix # {}
    THEN IF file = {}
         THEN [tests |-> tests, exc |-> "FileNotFoundError"]
         ELSE [tests |-> add_test(tests, IOTestCase(name, point_value,
                                                    valgrind_point_value, file, TRUE)),
               exc |-> "none"]
    ELSE [tests |-> add_test(tests, IOTestCase(name, point_value,
                                               valgrind_point_value, {}, TRUE)),
          exc |-> "none"]

\* create_build_test_case running the build as the autograder's own user
create_build_test_case_root(build_command, point_value) ==
    BasicTestCase(build_command, "Compiling", point_value, 0, FALSE)

\* Autograder.create_build_test_case
create_build_test_case(build_command, point_value) ==
    BasicTestCase(build_command, "Compiling", point_value, 0, TRUE)

\* Autograder.create_missing_files_check_test_case
create_missing_files_check_test_case ==
    CustomTestCase("Missing Files Check", 0)

\* Autograder.__init__ adding the banned-header check before the build check
Autograder_header_first(missing_files_check, build_command, banned_includes, source_files, compile_points) ==
    LET l1 == IF missing_files_check
              THEN add_test(<<>>, create_missing_files_check_test_case)
              ELSE <<>>
        hc == banned_includes # {} /\ source_files # {}
        l2 == IF hc THEN add_test(l1, HeaderCheckTestCase(banned_includes)) ELSE l1
        l3 == IF build_command
              THEN add_test(l2, create_build_test_case(BuildCommand, compile_points))
              ELSE l2
    IN  [test_cases |-> l3,
         missing_files_check_test_case |-> IF missing_files_check THEN Len(l1) ELSE 0,
         build_test_case |-> IF build_command THEN Len(l3) ELSE 0,
         include_check_test_case |-> IF hc THEN Len(l2) ELSE 0]

\* Autograder.__init__: the test list and the three gate references it leaves
Autograder(missing_files_check, build_command, banned_includes, source_files, compile_points) ==
    LET l1 == IF missing_files_check
              THEN add_test(<<>>, create_missing_files_check_test_case)
              ELSE <<>>
        l2 == IF build_command
              THEN add_test(l1, create_build_test_case(BuildCommand, compile_points))
              ELSE l1
        hc == banned_includes # {} /\ source_files # {}
        l3 == IF hc THEN add_test(l2, HeaderCheckTestCase(banned_includes)) ELSE l2
    IN  [test_cases |-> l3,
         missing_files_check_test_case |-> IF missing_files_check THEN Len(l1) ELSE 0,
         build_test_case |-> IF build_command THEN Len(l2) ELSE 0,
         include_check_test_case |-> IF hc THEN Len(l3) ELSE 0]

\* breaks without the break of the banned-header gate
breaks_no_include_break(i, t) ==
    \/ i = missing_files_check_test_case /\ t.result.passed # "True"
    \/ i = build_test_case /\ t.result.passed # "True"

\* break conditions that stop on a failed verdict only
breaks_only_failed(i, t) ==
    \/ i = missing_files_check_test_case /\ t.result.passed = "False"
    \/ i = build_test_case /\ t.result.passed = "False"
    \/ i = include_check_test_case /\ t.result.passed = "False"

\* the three break conditions of the loop of Autograder._execute, for the
\* test at index i after its execute() returned as t
breaks(i, t) ==
    \/ i = missing_files_check_test_case /\ t.result.passed # "True"
    \/ i = build_test_case /\ t.result.passed # "True"
    \/ i = include_check_test_case /\ t.result.passed # "True"

\* GradescopeResultsFormatter.get_total_score over the tests of one autograder
RECURSIVE SumScores(_, _)
SumScores(tests, n) ==
    IF n = 0 THEN 0 ELSE SumScores(tests, n - 1) + tests[n].result.score

get_total_score == SumScores(test_cases, Len(test_cases))

---------------------------------------------------------------------------
(* GradescopeResultsFormatter.  Text is a sequence of lines; an optional key *)
(* of a record of the results is a set with at most one element.            *)

NotRunText == "This test was not run."

DiffFormats == {"plain", "ansi", "html"}

\* the grading script has not created a formatter
\* the characters of a file: a printable one, a space, a line break and a
\* character that is not printable
Characters == {"a", " ", "\n", "NUL"}

\* str.isprintable and str.isspace
isprintable(ch) == ch \in {"a", " "}
isspace(ch) == ch \in {" ", "\n"}

\* file contents of up to n characters
RECURSIVE FileContents(_)
FileContents(n) ==
    IF n = 0 THEN {<<>>}
    ELSE LET shorter == FileContents(n - 1)
         IN  shorter \cup {Append(f, ch) : f \in shorter, ch \in Characters}

\* the lambda contract of _should_visualize_whitespace: the characters of a
\* line that are printable and not whitespace
RECURSIVE contract(_)
contract(line) ==
    IF line = <<>> THEN <<>>
    ELSE (IF isprintable(Head(line)) /\ ~isspace(Head(line)) THEN <<Head(line)>> ELSE <<>>)
         \o contract(Tail(line))

\* fp.readline(): the characters up to and with the next line break, or all
\* that is left; <<>> at the end of the file
RECURSIVE readline(_)
readline(rest) ==
    IF rest = <<>> THEN <<>>
    ELSE IF Head(rest) = "\n" THEN <<"\n">>
    ELSE <<Head(rest)>> \o readline(Tail(rest))

\* AnsiDiff._should_visualize_whitespace: the while loop over the lines of
\* the two files, exp and actual being what is left to read
RECURSIVE should_visualize_whitespace(_, _, _)
should_visualize_whitespace(exp, actual, diffs_found) ==
    LET exp_line == readline(exp)
        act_line == readline(actual)
    IN  IF exp_line = <<>> /\ act_line = <<>> THEN diffs_found
        ELSE IF contract(exp_line) # contract(act_line) THEN FALSE
        ELSE should_visualize_whitespace(
                SubSeq(exp, Len(exp_line) + 1, Len(exp)),
                SubSeq(actual, Len(act_line) + 1, Len(actual)),
                diffs_found \/ exp_line # act_line)

\* no AnsiDiff has been built
NoAnsiDiff == [built |-> FALSE, expected |-> <<>>, actual |-> <<>>, whitespace_shown |-> FALSE]

\* IOTestCaseBulkLoader.add has not been called
NoLoader ==
    [called |-> FALSE,
     status_file |-> {},            \* the status file the last call looked for
     exc |-> "none",                \* the exception the last call raised
     index |-> 0,                   \* the test the last call registered, 0 = none
     registered |-> {}]             \* the tests registered by all calls

NoFormatter == [created |-> FALSE]

\* ResultsFormatterBase.__init__: the test cases of the source autograders
RECURSIVE ResultsFormatterBase(_)
ResultsFormatterBase(src) ==
    IF src = <<>> THEN <<>> ELSE Head(src) \o ResultsFormatterBase(Tail(src))

\* GradescopeResultsFormatter.__init__
GradescopeResultsFormatter(src, diff_format, hide_points, verbose) ==
    [created |-> TRUE, test_cases |-> ResultsFormatterBase(src),
     diff_format |-> diff_format, hide_points |-> hide_points, verbose |-> verbose,
     results |-> {}]

\* valparse: hasErrors() or hasLeaks() or hasFatalSignal() of a parsed report
has_memory_errors(val) == val.errs > 0 \/ val.leaks > 0 \/ val.signal

\* the lines the formatter prints for a parsed report
valgrind_lines(val) ==
    <<"valgrind errors:", ToString(val.errs), "valgrind leaks:", ToString(val.leaks)>>
    \o (IF val.signal THEN <<"valgrind fatal signal:">> ELSE <<>>)

\* GradescopeResultsFormatter._test_status
test_status(t) ==
    IF t.result.valparse_out = {}
    THEN IF t.result.passed = "True" THEN "PASSED" ELSE "FAILED"
    ELSE IF ~t.result.output_correct THEN "FAILED"
    ELSE IF \E val \in t.result.valparse_out : has_memory_errors(val)
    THEN "FAILED (output correct, but memory errors detected)"
    ELSE "PASSED"

\* GradescopeResultsFormatter.basic_io_output
basic_io_output(t, verbose) ==
    IF ~t.result.has_run \/ ~t.runner.present THEN <<NotRunText>>
    ELSE IF t.result.error
    THEN <<"=== Unexpected autograder runtime error!  Please notify your instructors. ===",
           "=== stdout ===">> \o t.runner.stdout \o <<"=== stderr ===">> \o t.runner.stderr
    ELSE IF t.result.timed_out
    THEN <<"Test case timed out with limit = 1.", "== stdout ==">> \o t.runner.stdout
         \o <<"== stderr ==">> \o t.runner.stderr
    ELSE
        <<test_status(t) \o " in 0.00 ms.">>
        \o (IF ~verbose THEN <<>>
            ELSE <<"=== test command ===", t.command, "=== expected stdout ===">>
                 \o ExpStdoutFile \o <<"=== expected stderr ===">> \o ExpStderrFile
                 \o <<"=== expected exit status ===", ToString(t.exp_exit_status)>>
                 \o (IF t.result.passed = "True" THEN <<>>
                     ELSE <<"=== your stdout ===">> \o t.runner.stdout
                          \o <<"=== your stderr ===">> \o t.runner.stderr
                          \o <<"=== your exit status ===", ToString(t.exit_status)>>
                          \o (IF t.result.valparse_out = {} THEN <<>>
                              ELSE <<"=== valgrind ===">>
                                   \o valgrind_lines(CHOOSE val \in t.result.valparse_out : TRUE))))

\* GradescopeResultsFormatter.generate_ansi_diff
generate_ansi_diff(t, verbose) ==
    IF ~t.result.has_run \/ ~t.runner.present THEN <<NotRunText>>
    ELSE
        (IF t.result.timed_out
         THEN <<"Test case timed out with limit = {test.timeout}.", "">> ELSE <<>>)
        \o <<"Test status: " \o test_status(t), "">>
        \o (IF t.result.output_correct
            THEN <<"", "=== TEST OUTPUT ===">> \o ExpStdoutFile
            ELSE <<"stdout">> \o t.runner.stdout \o ExpStdoutFile
                 \o <<"stderr">> \o t.runner.stderr \o ExpStderrFile)
        \o (IF t.exp_exit_status # t.exit_status
            THEN <<"", "Expected exit status of, but your exit status was",
                   ToString(t.exp_exit_status), ToString(t.exit_status)>>
            ELSE <<>>)
        \o (IF t.result.valparse_out = {} THEN <<>>
            ELSE <<"", "=== VALGRIND ===">>
                 \o valgrind_lines(CHOOSE val \in t.result.valparse_out : TRUE))

\* GradescopeResultsFormatter.generate_html_diff
generate_html_diff(t) ==
    IF ~t.result.has_run \/ ~t.runner.present THEN <<"<i>" \o NotRunText \o "</i>">>
    ELSE IF t.result.timed_out THEN <<"<i>Test case timed out with limit = 1.</i>">>
    ELSE
        <<"<div>", "<h2>exit status</h2>", ToString(t.runner.exit_status), "<hr>",
          "<h2>stdout</h2>">>
        \o t.runner.stdout \o ExpStdoutFile
        \o <<"<hr>", "<h2>stderr</h2>">> \o t.runner.stderr \o ExpStderrFile
        \o (IF t.result.valparse_out = {} THEN <<>>
            ELSE LET val == CHOOSE v \in t.result.valparse_out : TRUE
                 IN  IF val.errs + val.leaks > 0
                     THEN <<"<h2>valgrind errors/leaks</h2><ul>", ToString(val.errs),
                            ToString(val.leaks), "</ul>">>
                     ELSE <<>>)
        \o <<"</div>">>

\* GradescopeResultsFormatter.format_io_test
format_io_test(t, diff_format, verbose) ==
    [output_format |-> {CASE diff_format = "plain" -> "simple_format"
                          [] diff_format = "ansi" -> "ansi"
                          [] OTHER -> "html"},
     output |-> CASE diff_format = "plain" -> basic_io_output(t, verbose)
                  [] diff_format = "ansi" -> generate_ansi_diff(t, verbose)
                  [] OTHER -> generate_html_diff(t)]

\* GradescopeResultsFormatter.format_basic_test
format_basic_test(t, verbose) ==
    [output_format |-> {},
     output |-> IF ~t.runner.present THEN <<NotRunText>>
                ELSE <<"=== test command ===", t.command, "=== exit status ===",
                       ToString(t.runner.exit_status)>>
                     \o (IF verbose
                         THEN <<"=== stdout ===">> \o t.runner.stdout
                              \o <<"=== stderr ===">> \o t.runner.stderr
                         ELSE <<>>)]

\* format_static_analysis without the test of has_run
format_static_analysis_no_sentinel(t) ==
    [output_format |-> {},
     output |-> IF t.result.passed = "True" THEN <<"Test passed!">>
                ELSE IF t.result.error
                THEN <<"Test ERRORED", "=== stderr ===">> \o t.result.stderr
                     \o <<"", "Return code:", ToString(t.result.exit_status)>>
                ELSE <<"Test FAILED">> \o t.result.stderr]

\* GradescopeResultsFormatter.format_static_analysis
format_static_analysis(t) ==
    [output_format |-> {},
     output |-> IF ~t.result.has_run THEN <<NotRunText>>
                ELSE IF t.result.passed = "True" THEN <<"Test passed!">>
                ELSE IF t.result.error
                THEN <<"Test ERRORED", "=== stderr ===">> \o t.result.stderr
                     \o <<"", "Return code:", ToString(t.result.exit_status)>>
                ELSE <<"Test FAILED">> \o t.result.stderr]

\* GradescopeResultsFormatter.format_custom_test
format_custom_test(t) ==
    [output_format |-> {},
     output |-> IF ~t.result.has_run THEN <<NotRunText>> ELSE t.result.output]

\* GradescopeResultsFormatter.format_test: one record of results["tests"]
format_test(f, t) ==
    LET item == CASE t.kind = "IO" -> format_io_test(t, f.diff_format, f.verbose)
                  [] t.kind = "Basic" -> format_basic_test(t, f.verbose)
                  [] t.kind = "Static" -> format_static_analysis(t)
                  [] OTHER -> format_custom_test(t)
    IN  [name |-> t.name,
         visibility |-> "visible",
         score |-> IF f.hide_points THEN {} ELSE {t.result.score},
         max_score |-> {t.point_value},
         status |-> CASE t.result.passed = "None" -> {}
                      [] t.result.passed = "True" -> {"passed"}
                      [] OTHER -> {"failed"},
         output_format |-> item.output_format,
         output |-> item.output]

\* GradescopeResultsFormatter.execute reporting the sum of the point values
GradescopeResultsFormatter_execute_max(f) ==
    LET RECURSIVE SumPoints(_)
        SumPoints(n) == IF n = 0 THEN 0 ELSE SumPoints(n - 1) + f.test_cases[n].point_value
    IN  [f EXCEPT !.results =
            {[score |-> IF f.hide_points THEN 0 ELSE SumPoints(Len(f.test_cases)),
              tests |-> [k \in 1..Len(f.test_cases) |-> format_test(f, f.test_cases[k])]]}]

\* GradescopeResultsFormatter.execute: the formatter with its results set
GradescopeResultsFormatter_execute(f) ==
    [f EXCEPT !.results =
        {[score |-> IF f.hide_points THEN 0 ELSE SumScores(f.test_cases, Len(f.test_cases)),
          tests |-> [k \in 1..Len(f.test_cases) |-> format_test(f, f.test_cases[k])]]}]

\* a second Autograder of the grading script, which it never executes
OtherAutograder == Autograder(TRUE, TRUE, {}, {}, MaxPoints)

---------------------------------------------------------------------------
(* Configurations *)

PointValues == 0..MaxPoints
BannedIncludes == {"string.h"}
OptionalStatuses == {{}} \cup {{s} : s \in ExitStatuses}

BasicTests ==
    {BasicTestCase(SubmissionCommand, "Test Case", p, e, TRUE) : p \in PointValues, e \in ExitStatuses}

IOTests ==
    {IOTestCase("Test Case", p, v, e, TRUE) :
        p \in PointValues, v \in (-1)..MaxPoints, e \in OptionalStatuses}

StaticTests ==
    {StaticAnalysisTestCase(ListDepsCommand, BannedIncludes, "Code Analysis", p, TRUE) :
        p \in PointValues}

AllTests == BasicTests \cup IOTests \cup StaticTests

\* the test cases the grading script adds to a gated Autograder: a command
\* test and a static analysis, each running a tool of the instructor
UserTests ==
    {BasicTestCase("make test", "Test Case", MaxPoints, 0, TRUE),
     StaticAnalysisTestCase("cppcheck submission.c", BannedIncludes, "Code Analysis", 0, TRUE)}

\* test cases the grading script creates without the argument student, and
\* one it creates with student = False for a tool of the instructor
DefaultTests ==
    {BasicTestCase(SubmissionCommand, "Test Case", MaxPoints, 0, BasicTestCase_student),
     IOTestCase("Test Case", MaxPoints, 0, {}, IOTestCase_student),
     StaticAnalysisTestCase("cppcheck submission.c", BannedIncludes, "Code Analysis", 0,
                            StaticAnalysisTestCase_student),
     BasicTestCase("make test", "Test Case", MaxPoints, 0, FALSE)}

Gates == {missing_files_check_test_case, build_test_case, include_check_test_case} \ {0}

---------------------------------------------------------------------------
(* wrappers/harness.py: the launcher process and its credentials.  The set- *)
(* id calls follow setresuid(2) and setresgid(2): a process whose effective *)
(* user id is 0 holds CAP_SETUID and CAP_SETGID and may set any id; any     *)
(* other process may set each id only to one of its current real, effective *)
(* or saved ids; -1 leaves an id unchanged.  A child created by fork starts *)
(* with the credentials and the filter of its parent, so the credentials of *)
(* one process stand for those of any process of the tree.                  *)

\* the "student" account of harness.py
StudentId == 1000

\* the superuser, the student and one more unprivileged account
Ids == {0, StudentId, StudentId + 1}

Unchanged == -1

\* no filter loaded / the filter harness.py builds: every system call is
\* allowed but socket() with one of two address families, which gets EACCES
NoFilter == [loaded |-> FALSE, default |-> "ALLOW", rules |-> {}]

\* the filter with the rule for AF_INET only
NetworkFilter_inet_only ==
    [loaded |-> TRUE, default |-> "ALLOW",
     rules |-> {[syscall |-> "socket", arg0 |-> "AF_INET", action |-> "EACCES"]}]

NetworkFilter ==
    [loaded |-> TRUE, default |-> "ALLOW",
     rules |-> {[syscall |-> "socket", arg0 |-> family, action |-> "EACCES"] :
                    family \in {"AF_INET", "AF_INET6"}}]

NoSyscall == [name |-> "none", arg0 |-> "", result |-> "none"]

\* harness.py has not been started
NotLaunched ==
    [pc |-> "none", ruid |-> 0, euid |-> 0, suid |-> 0, rgid |-> 0, egid |-> 0,
     sgid |-> 0, filter |-> NoFilter, steps |-> <<>>, start |-> <<>>, last |-> "none",
     generation |-> 0,              \* forks between the target and the process
     syscall |-> NoSyscall]         \* the last system call it made under the filter

\* the system calls the target is seen to make, with their first argument
Syscalls ==
    {<<"socket", "AF_INET">>, <<"socket", "AF_INET6">>, <<"socket", "AF_UNIX">>,
     <<"open", "path">>, <<"execve", "path">>}

\* what a loaded filter answers to a system call: the action of a rule that
\* matches the call and its first argument, otherwise the default action
seccomp(filter, name, arg0) ==
    LET matching == {rule \in filter.rules : rule.syscall = name /\ rule.arg0 = arg0}
    IN  IF matching # {} THEN (CHOOSE rule \in matching : TRUE).action ELSE filter.default

\* the process holds CAP_SETUID and CAP_SETGID
Privileged(p) == p.euid = 0

\* the id an argument of setres[ug]id asks for
NewId(old, arg) == IF arg = Unchanged THEN old ELSE arg

\* setresuid(r, e, s) by process p: the process after the call; last is
\* "EPERM" when the call was refused
setresuid(p, r, e, s) ==
    IF Privileged(p) \/ ({r, e, s} \ {Unchanged}) \subseteq {p.ruid, p.euid, p.suid}
    THEN [p EXCEPT !.ruid = NewId(p.ruid, r), !.euid = NewId(p.euid, e),
                   !.suid = NewId(p.suid, s), !.last = "ok"]
    ELSE [p EXCEPT !.last = "EPERM"]

\* setresgid(r, e, s) by process p
setresgid(p, r, e, s) ==
    IF Privileged(p) \/ ({r, e, s} \ {Unchanged}) \subseteq {p.rgid, p.egid, p.sgid}
    THEN [p EXCEPT !.rgid = NewId(p.rgid, r), !.egid = NewId(p.egid, e),
                   !.sgid = NewId(p.sgid, s), !.last = "ok"]
    ELSE [p EXCEPT !.last = "EPERM"]

\* harness.py changing the effective user id only
harness_seteuid(p) == setresuid(p, Unchanged, StudentId, Unchanged)

\* harness.py line 20: os.setresuid(1000, 1000, 1000)
harness_setresuid(p) == setresuid(p, StudentId, StudentId, StudentId)

\* harness.py line 21: os.setresgid(1000, 1000, 1000)
harness_setresgid(p) == setresgid(p, StudentId, StudentId, StudentId)

\* a statement of harness.py completed (on to statement next) or raised
\* PermissionError, which ends the process
Step(p, name, next) ==
    IF p.last = "EPERM"
    THEN [p EXCEPT !.pc = "failed"]
    ELSE [p EXCEPT !.pc = next, !.steps = Append(p.steps, name)]

---------------------------------------------------------------------------
(* Initial states *)

Idle ==
    /\ status = "idle"
    /\ pc = 0
    /\ cwd = "/autograder"
    /\ saved_cwd = "/autograder"
    /\ report_file = NoReport
    /\ executed = <<>>
    /\ ran_before = {}
    /\ aborted_at = 0
    /\ formatter = NoFormatter
    /\ harness = NotLaunched
    /\ loader = NoLoader
    /\ ansi_diff = NoAnsiDiff

\* the files the Autograder was constructed with, and its sandbox
Files(required, supplied) ==
    /\ required_files = required
    /\ supplied_files = supplied
    /\ sandbox = create_sandbox_directory

Constructed(ag) ==
    /\ test_cases = ag.test_cases
    /\ missing_files_check_test_case = ag.missing_files_check_test_case
    /\ build_test_case = ag.build_test_case
    /\ include_check_test_case = ag.include_check_test_case

\* the state after Autograder(...) returned
Init ==
    /\ \E mfc \in BOOLEAN, bc \in BOOLEAN, bi \in {{}, BannedIncludes},
          sf \in {{}, RequiredFiles}, cp \in {MaxPoints} :
            Constructed(Autograder(mfc, bc, bi, sf, cp))
    /\ Files(RequiredFiles, {})
    /\ Idle

\* an Autograder holding one test case: one gate it created, or no gate and
\* one test of any class and configuration added to it
InitTC ==
    /\ \/ \E cp \in PointValues :
            \/ Constructed(Autograder(TRUE, FALSE, {}, {}, cp))
            \/ Constructed(Autograder(FALSE, TRUE, {}, {}, cp))
            \/ Constructed(Autograder(FALSE, FALSE, BannedIncludes, RequiredFiles, cp))
       \/ \E t \in AllTests :
            LET ag == Autograder(FALSE, FALSE, {}, {}, 0)
            IN  Constructed([ag EXCEPT !.test_cases = add_test(ag.test_cases, t)])
    /\ Files(RequiredFiles, {})
    /\ Idle

---------------------------------------------------------------------------
(* Actions *)

\* ag.add_test(t), called by the grading script before it calls execute()
AddTestOf(tests, max) ==
    /\ status = "idle"
    /\ Len(test_cases) - Cardinality(Gates) < max
    /\ \E t \in tests : test_cases' = add_test(test_cases, t)
    /\ UNCHANGED <<missing_files_check_test_case, build_test_case,
                   include_check_test_case, status, pc, cwd, saved_cwd,
                   report_file, executed, ran_before, aborted_at, formatter, harness,
                   loader, required_files, supplied_files, sandbox, ansi_diff>>

\* with the test cases of a gated grading script
AddTest == AddTestOf(UserTests, MaxUserTests)

\* with test cases created without the argument student
AddDefaultTest == AddTestOf(DefaultTests, MaxBulkTests)

\* ag.io_tests_bulk_loader().add(name, point_value, valgrind_point_value),
\* called by the grading script before it calls execute(); the exception
\* of a missing status file is recorded and the script goes on
BulkAdd ==
    /\ status = "idle"
    /\ Len(test_cases) - Cardinality(Gates) < MaxBulkTests
    /\ \E point_value \in {MaxPoints}, valgrind_point_value \in {0, MaxPoints},
          file \in StatusFiles :
        LET x == IOTestCaseBulkLoader_add(io_tests_bulk_loader, test_cases, "1",
                                          point_value, valgrind_point_value, file)
        IN  /\ test_cases' = x.tests
            /\ loader' = [called |-> TRUE, status_file |-> file, exc |-> x.exc,
                          index |-> IF x.exc = "none" THEN Len(x.tests) ELSE 0,
                          registered |-> IF x.exc = "none"
                                         THEN loader.registered \cup {Len(x.tests)}
                                         ELSE loader.registered]
    /\ UNCHANGED <<missing_files_check_test_case, build_test_case,
                   include_check_test_case, status, pc, cwd, saved_cwd,
                   report_file, executed, ran_before, aborted_at, formatter, harness,
                   required_files, supplied_files, sandbox, ansi_diff>>

\* Autograder.execute up to the first iteration of the loop of _execute:
\* chdir, the two copies and give_student_perms; an exception of a copy
\* leaves execute() at once. found is what the submission holds at that time
BeginExecuteWith(submissions) ==
    /\ status \in {"idle", "returned", "raised"}
    /\ \E found \in submissions :
        LET c1 == copy_submission_files([sandbox EXCEPT !.submitted = found],
                                        required_files, found)
            c2 == IF c1.exc # "none" THEN c1 ELSE copy_supplied_files(c1.sb, supplied_files)
        IN  IF c2.exc # "none"
            THEN sandbox' = c2.sb /\ status' = "raised"
            ELSE sandbox' = give_student_perms(c2.sb) /\ status' = "running"
    /\ saved_cwd' = cwd
    /\ cwd' = "/tmp/sandbox"
    /\ pc' = 1
    /\ executed' = <<>>
    /\ ran_before' = {i \in 1..Len(test_cases) : test_cases[i].result.has_run}
    /\ aborted_at' = 0
    /\ UNCHANGED <<test_cases, missing_files_check_test_case, build_test_case,
                   include_check_test_case, report_file, formatter, harness,
                   loader, required_files, supplied_files, ansi_diff>>

\* with a submission that holds every required file
BeginExecute == BeginExecuteWith({RequiredFiles})

\* with any submission
BeginExecuteAny == BeginExecuteWith(SUBSET SubmittedNames)

\* one iteration of the loop of Autograder._execute
ExecuteTest ==
    /\ status = "running"
    /\ aborted_at = 0
    /\ pc <= Len(test_cases)
    /\ \E o \in Outcomes(test_cases[pc]) :
        LET x == execute(test_cases[pc], o, report_file)
        IN  /\ test_cases' = [test_cases EXCEPT ![pc] = x.tc]
            /\ report_file' = x.file
            /\ executed' = Append(executed, [index |-> pc, outcome |-> o,
                                             exc |-> x.exc, result |-> x.tc.result,
                                             file |-> x.file])
            /\ IF x.exc # "none"
               THEN status' = "raised" /\ UNCHANGED <<pc, aborted_at>>
               ELSE IF breaks(pc, x.tc)
               THEN aborted_at' = pc /\ UNCHANGED <<pc, status>>
               ELSE pc' = pc + 1 /\ UNCHANGED <<status, aborted_at>>
    /\ UNCHANGED <<missing_files_check_test_case, build_test_case,
                   include_check_test_case, cwd, saved_cwd, ran_before, formatter, harness,
                   loader, required_files, supplied_files, sandbox, ansi_diff>>

\* Autograder.execute after _execute returned
Return ==
    /\ status = "running"
    /\ aborted_at # 0 \/ pc > Len(test_cases)
    /\ status' = "returned"
    /\ cwd' = saved_cwd
    /\ UNCHANGED <<test_cases, missing_files_check_test_case, build_test_case,
                   include_check_test_case, pc, saved_cwd, report_file,
                   executed, ran_before, aborted_at, formatter, harness,
                   loader, required_files, supplied_files, sandbox, ansi_diff>>

\* the grading script builds GradescopeResultsFormatter(src, ...) over this
\* Autograder, alone or followed by a second one, and calls its execute()
FormatWith(formats, verbosities) ==
    /\ status \in {"idle", "returned"}
    /\ \E src \in {<<test_cases>>, <<test_cases, OtherAutograder.test_cases>>},
          diff_format \in formats, hide_points \in BOOLEAN, verbose \in verbosities :
            formatter' = GradescopeResultsFormatter_execute(
                            GradescopeResultsFormatter(src, diff_format, hide_points, verbose))
    /\ status' = "exported"
    /\ UNCHANGED <<test_cases, missing_files_check_test_case, build_test_case,
                   include_check_test_case, pc, cwd, saved_cwd, report_file,
                   executed, ran_before, aborted_at, harness,
                   loader, required_files, supplied_files, sandbox, ansi_diff>>

\* with any diff_format and verbose
Format == FormatWith(DiffFormats, BOOLEAN)

\* with the defaults of the constructor, diff_format = "plain" and verbose = True
FormatDefault == FormatWith({"plain"}, {TRUE})

NextTC == BeginExecute \/ ExecuteTest \/ Return

Next == AddTest \/ BeginExecute \/ ExecuteTest \/ Return

Spec == Init /\ [][Next]_vars

SpecTC == InitTC /\ [][NextTC]_vars

\* the same two, followed by the formatter: the gated Autograder with the
\* default output options, the single test case with every output option
NextFmt == AddTest \/ BeginExecute \/ ExecuteTest \/ Return \/ FormatDefault

SpecFmt == Init /\ [][NextFmt]_vars

NextTCFmt == BeginExecute \/ ExecuteTest \/ Return \/ Format

SpecTCFmt == InitTC /\ [][NextTCFmt]_vars

---------------------------------------------------------------------------
(* The launcher *)

\* an Autograder with the two file gates, constructed with any lists of
\* required and supplied files
InitSandbox ==
    /\ Constructed(Autograder(TRUE, TRUE, {}, {}, MaxPoints))
    /\ \E required \in {RequiredFiles, RequiredFiles \cup {"Makefile"}, SubmittedNames},
          supplied \in SUBSET SuppliedItems :
            Files(required, supplied)
    /\ Idle

NextSandbox == BeginExecuteAny \/ ExecuteTest \/ Return
SpecSandbox == InitSandbox /\ [][NextSandbox]_vars

\* an Autograder with the build gate and the banned-header gate, to which
\* the grading script adds tests itself and through the bulk loader
InitBulk ==
    /\ Constructed(Autograder(FALSE, TRUE, BannedIncludes, RequiredFiles, MaxPoints))
    /\ Files(RequiredFiles, {})
    /\ Idle

\* the grading script calls execute() after it has added its tests, and
\* again only when an exception left the call
NextBulk == AddDefaultTest \/ BulkAdd \/ BeginExecute \/ ExecuteTest
SpecBulk == InitBulk /\ [][NextBulk]_vars

AutograderUnchanged ==
    UNCHANGED <<test_cases, missing_files_check_test_case, build_test_case,
                include_check_test_case, status, pc, cwd, saved_cwd, report_file,
                executed, ran_before, aborted_at, formatter,
                loader, required_files, supplied_files, sandbox, ansi_diff>>

\* the expected file and the output file of a test, before an AnsiDiff is
\* built on them
InitDiff ==
    /\ Constructed(Autograder(FALSE, FALSE, {}, {}, 0))
    /\ Files(RequiredFiles, {})
    /\ status = "idle" /\ pc = 0 /\ cwd = "/autograder" /\ saved_cwd = "/autograder"
    /\ report_file = NoReport /\ executed = <<>> /\ ran_before = {}
    /\ aborted_at = 0 /\ formatter = NoFormatter /\ loader = NoLoader
    /\ harness = NotLaunched
    /\ \E expected \in FileContents(MaxFileLen), actual \in FileContents(MaxFileLen) :
            ansi_diff = [NoAnsiDiff EXCEPT !.expected = expected, !.actual = actual]

\* AnsiDiff.__init__ on files that need no truncation
AnsiDiff_init ==
    /\ ~ansi_diff.built
    /\ ansi_diff' = [ansi_diff EXCEPT
                        !.built = TRUE,
                        !.whitespace_shown =
                            should_visualize_whitespace(ansi_diff.expected,
                                                        ansi_diff.actual, FALSE)]
    /\ UNCHANGED <<test_cases, missing_files_check_test_case, build_test_case,
                   include_check_test_case, status, pc, cwd, saved_cwd, report_file,
                   executed, ran_before, aborted_at, formatter, harness,
                   loader, required_files, supplied_files, sandbox>>

NextDiff == AnsiDiff_init
SpecDiff == InitDiff /\ [][NextDiff]_vars

\* harness.py has been started with some credentials; no Autograder matters
InitHarness ==
    /\ Constructed(Autograder(FALSE, FALSE, {}, {}, 0))
    /\ status = "idle" /\ pc = 0 /\ cwd = "/autograder" /\ saved_cwd = "/autograder"
    /\ report_file = NoReport /\ executed = <<>> /\ ran_before = {}
    /\ aborted_at = 0 /\ formatter = NoFormatter /\ loader = NoLoader
    /\ ansi_diff = NoAnsiDiff
    /\ Files(RequiredFiles, {})
    /\ \E ruid \in Ids, euid \in Ids, suid \in Ids, rgid \in Ids, egid \in Ids, sgid \in Ids :
            harness = [NotLaunched EXCEPT
                          !.pc = "load", !.ruid = ruid, !.euid = euid, !.suid = suid,
                          !.rgid = rgid, !.egid = egid, !.sgid = sgid,
                          !.start = <<ruid, euid, suid, rgid, egid, sgid>>]

\* harness.py lines 10-17: the filter is built and loaded
LoadFilter ==
    /\ harness.pc = "load"
    /\ harness' = Step([harness EXCEPT !.filter = NetworkFilter, !.last = "ok"],
                       "filter.load", "setresuid")
    /\ AutograderUnchanged

\* harness.py going from the user ids straight to execvp
SetResUid_skip_gid ==
    /\ harness.pc = "setresuid"
    /\ harness' = Step(harness_setresuid(harness), "setresuid", "execvp")
    /\ AutograderUnchanged

\* harness.py line 20
SetResUid ==
    /\ harness.pc = "setresuid"
    /\ harness' = Step(harness_setresuid(harness), "setresuid", "setresgid")
    /\ AutograderUnchanged

\* harness.py line 21
SetResGid ==
    /\ harness.pc = "setresgid"
    /\ harness' = Step(harness_setresgid(harness), "setresgid", "execvp")
    /\ AutograderUnchanged

\* harness.py line 23: control passes to the target when it can be executed,
\* otherwise os.execvp raises OSError
Execvp ==
    /\ harness.pc = "execvp"
    /\ \E found \in BOOLEAN :
            harness' = IF found THEN Step(harness, "execvp", "target")
                       ELSE [harness EXCEPT !.pc = "failed"]
    /\ AutograderUnchanged

\* the target, or a descendant of it, calls setresuid (setuid, seteuid and
\* setreuid are cases of it)
TargetSetResUid ==
    /\ harness.pc = "target"
    /\ \E r \in Ids \cup {Unchanged}, e \in Ids \cup {Unchanged}, s \in Ids \cup {Unchanged} :
            harness' = setresuid(harness, r, e, s)
    /\ AutograderUnchanged

\* the target, or a descendant of it, calls setresgid
TargetSetResGid ==
    /\ harness.pc = "target"
    /\ \E r \in Ids \cup {Unchanged}, e \in Ids \cup {Unchanged}, s \in Ids \cup {Unchanged} :
            harness' = setresgid(harness, r, e, s)
    /\ AutograderUnchanged

\* the target, or a descendant of it, makes a system call under the filter
\* it inherited
TargetSyscall ==
    /\ harness.pc = "target"
    /\ \E call \in Syscalls :
            harness' = [harness EXCEPT !.syscall =
                            [name |-> call[1], arg0 |-> call[2],
                             result |-> seccomp(harness.filter, call[1], call[2])]]
    /\ AutograderUnchanged

\* the process forks and its child goes on: the child has the credentials
\* and the filter of its parent
TargetFork ==
    /\ harness.pc = "target"
    /\ harness.generation < MaxGenerations
    /\ harness' = [harness EXCEPT !.generation = @ + 1,
                        !.syscall = [name |-> "fork", arg0 |-> "",
                                     result |-> seccomp(harness.filter, "fork", "")]]
    /\ AutograderUnchanged

NextHarness ==
    \/ LoadFilter \/ SetResUid \/ SetResGid \/ Execvp
    \/ TargetSetResUid \/ TargetSetResGid \/ TargetSyscall \/ TargetFork

SpecHarness == InitHarness /\ [][NextHarness]_vars

---------------------------------------------------------------------------
(* Vocabulary of the properties *)

\* the indices the current execute() call has executed, in order
ExecutedIndices == [k \in 1..Len(executed) |-> executed[k].index]

ExecutedSet == {executed[k].index : k \in 1..Len(executed)}

\* a gate the current call executed ended with a result that is not passed
FailedGates ==
    {executed[k].index : k \in {j \in 1..Len(executed) :
        executed[j].index \in Gates /\ executed[j].result.passed # "True"}}

\* the sum of the scores of the gating tests the current call executed
RECURSIVE SumGateScores(_)
SumGateScores(n) ==
    IF n = 0 THEN 0
    ELSE SumGateScores(n - 1)
         + (IF executed[n].index \in Gates THEN executed[n].result.score ELSE 0)

\* execute() has been left, by return or by an exception
Left == status \in {"returned", "raised"}

---------------------------------------------------------------------------
(* C1 *)

\* C1: when a gating test of the current execute() call ended not passed, no
\* test placed after it is executed by that call, a test after it that was
\* not run before the call still has has_run = FALSE, every result the call
\* produced is still the result of its test, and when no test after the gate
\* was run before the call the aggregate score is the sum of the scores of
\* the gating tests the call executed.
C1_GateFailureAborts ==
    \A g \in FailedGates :
        LET later == (g + 1)..Len(test_cases)
        IN  /\ \A i \in later : i \notin ExecutedSet
            /\ \A i \in later : i \notin ran_before => ~test_cases[i].result.has_run
            /\ \A k \in 1..Len(executed) :
                    test_cases[executed[k].index].result = executed[k].result
            /\ (later \cap ran_before = {}) =>
                    get_total_score = SumGateScores(Len(executed))

\* C1 witness: the banned-header gate ended not passed after the build gate
\* scored, a test follows it, and execute() has returned
C1_Witness ==
    /\ status = "returned"
    /\ include_check_test_case \in FailedGates
    /\ build_test_case # 0
    /\ test_cases[build_test_case].result.score > 0
    /\ Len(test_cases) > include_check_test_case
    /\ ~test_cases[Len(test_cases)].result.has_run

---------------------------------------------------------------------------
(* C2 *)

\* C2: once execute() has been left in a call where every configured gate
\* passed (or none is configured), every test case has been executed exactly
\* once, in the order of test_cases.
C2_AllRunWhenGatesPass ==
    (Left /\ \A g \in Gates : g \in ExecutedSet /\ g \notin FailedGates)
        => ExecutedIndices = [k \in 1..Len(test_cases) |-> k]

---------------------------------------------------------------------------
(* C3 *)

\* C3: the configured gating tests sit before every other test of
\* test_cases, in the order missing-files check, build check, banned-header
\* check, and a call executes its tests in increasing index order, so every
\* gate executes before any non-gating test and the gates in that order.
C3_GatesFirstInOrder ==
    /\ \A g \in Gates : \A i \in 1..Len(test_cases) : i \notin Gates => g < i
    /\ missing_files_check_test_case # 0 /\ build_test_case # 0
            => missing_files_check_test_case < build_test_case
    /\ build_test_case # 0 /\ include_check_test_case # 0
            => build_test_case < include_check_test_case
    /\ missing_files_check_test_case # 0 /\ include_check_test_case # 0
            => missing_files_check_test_case < include_check_test_case
    /\ \A j, k \in 1..Len(executed) : j < k => executed[j].index < executed[k].index
    /\ \A k \in 1..Len(executed) : executed[k].index = k

\* C3 witness: all three gates and two added tests have been executed by one call
C3_Witness ==
    /\ status = "returned"
    /\ Cardinality(Gates) = 3
    /\ Len(test_cases) = 5
    /\ Len(executed) = 5

---------------------------------------------------------------------------
(* C4 *)

FailureTypes == {"timeout", "oserror", "exception", "nocmd"}

\* C4: no failure inside a test case's execute() leaves Autograder.execute()
\* as an exception: the failure is recorded in the result of the test, and
\* when no gate stopped the call every test has been executed on return.
C4_FailuresIsolated ==
    /\ status # "raised"
    /\ \A k \in 1..Len(executed) :
            executed[k].outcome.type \in FailureTypes =>
                /\ executed[k].exc = "none"
                /\ \/ executed[k].result.timed_out
                   \/ executed[k].result.crash
                   \/ executed[k].result.error
    /\ (status = "returned" /\ FailedGates = {}) => Len(executed) = Len(test_cases)

---------------------------------------------------------------------------
(* C5 - C10: properties of one execute() of a test case.  They are stated   *)
(* for every entry of executed, whose result is the result of its test.     *)

Entries == {executed[k] : k \in 1..Len(executed)}

NonNegative(t) ==
    /\ t.point_value >= 0
    /\ t.point_value_correct_out >= 0
    /\ t.point_value_valgrind >= 0

\* C5: a test case configured with non-negative point values has
\* 0 <= result.score <= point_value before and after every execute(), and the
\* point_value of an IO test is its base points plus its bonus points.
C5_ScoreWithinPointValue ==
    \A i \in 1..Len(test_cases) :
        LET t == test_cases[i]
        IN  /\ NonNegative(t) => 0 <= t.result.score /\ t.result.score <= t.point_value
            /\ t.kind = "IO" =>
                    t.point_value = t.point_value_correct_out + t.point_value_valgrind

\* C5 witness: an IO test with base and bonus points passed with the full score
C5_Witness ==
    \E e \in Entries :
        LET t == test_cases[e.index]
        IN  /\ t.kind = "IO"
            /\ t.point_value_correct_out > 0 /\ t.point_value_valgrind > 0
            /\ e.result.passed = "True"
            /\ e.result.score = t.point_value

\* the output of the run equals the expected output of IO test t
OutputMatches(t, o) ==
    /\ o.stdout = ExpStdoutFile
    /\ o.stderr = ExpStderrFile
    /\ t.exp_exit_status # {} => t.exp_exit_status = {o.status}

\* C6: for an IO test that ran to completion, output_correct holds exactly
\* when stdout and stderr equal the expected files and the exit status equals
\* the expected one when one is configured; stdout with one more trailing
\* newline is not correct; without bonus points a correct output gives
\* passed = True and score = point_value.
C6_OutputCorrectExact ==
    \A e \in Entries :
        LET t == test_cases[e.index]
        IN  (t.kind = "IO" /\ e.outcome.type = "exit") =>
                /\ e.result.output_correct <=> OutputMatches(t, e.outcome)
                /\ e.outcome.stdout = ExpStdoutFile \o <<"\n">> => ~e.result.output_correct
                /\ (t.point_value_valgrind = 0 /\ e.result.output_correct) =>
                        e.result.passed = "True" /\ e.result.score = t.point_value

\* C6 witness: an IO test whose stdout matched and whose stderr alone differed
C6_Witness ==
    \E e \in Entries :
        LET t == test_cases[e.index]
        IN  /\ t.kind = "IO" /\ e.outcome.type = "exit"
            /\ e.outcome.stdout = ExpStdoutFile
            /\ e.outcome.stderr # ExpStderrFile
            /\ t.exp_exit_status = {e.outcome.status}
            /\ ~e.result.output_correct

\* the report the run wrote shows no error, no leak and no fatal signal
MemoryClean(report) ==
    report.state = "ok" /\ report.errs = 0 /\ report.leaks = 0 /\ ~report.signal

\* C7: for an IO test with bonus points V > 0 that ran to completion: correct
\* output and a memory-clean run give score B + V and passed = True; correct
\* output and a run that is not memory-clean give score B and passed = False;
\* an output that is not correct gives score 0 and passed = False.
C7_BonusOnlyWhenClean ==
    \A e \in Entries :
        LET t == test_cases[e.index]
            correct == OutputMatches(t, e.outcome)
            clean == MemoryClean(e.outcome.report)
            B == t.point_value_correct_out
            V == t.point_value_valgrind
        IN  (t.kind = "IO" /\ V > 0 /\ e.outcome.type = "exit") =>
                /\ (correct /\ clean) =>
                        e.result.score = B + V /\ e.result.passed = "True"
                /\ (correct /\ ~clean) =>
                        e.result.score = B /\ e.result.passed = "False"
                /\ ~correct => e.result.score = 0 /\ e.result.passed = "False"

\* C7 witness: base points kept and bonus withheld for a run with one leak
C7_Witness ==
    \E e \in Entries :
        LET t == test_cases[e.index]
        IN  /\ t.kind = "IO" /\ e.outcome.type = "exit"
            /\ t.point_value_correct_out > 0 /\ t.point_value_valgrind > 0
            /\ OutputMatches(t, e.outcome)
            /\ e.outcome.report.state = "ok"
            /\ e.outcome.report.leaks = 1 /\ e.outcome.report.errs = 0
            /\ ~e.outcome.report.signal
            /\ e.result.score = t.point_value_correct_out

Spawning == {"Basic", "IO", "Static"}

\* C8: when the command of a Basic, IO or StaticAnalysis test runs longer
\* than the timeout, execute() returns normally with timed_out set, passed
\* not True and score 0.
C8_TimeoutResult ==
    \A e \in Entries :
        (test_cases[e.index].kind \in Spawning /\ e.outcome.type = "timeout") =>
            /\ e.exc = "none"
            /\ e.result.timed_out
            /\ e.result.passed # "True"
            /\ e.result.score = 0

\* C8 witness: a StaticAnalysis test timed out
C8_Witness ==
    \E e \in Entries :
        /\ test_cases[e.index].kind = "Static"
        /\ e.outcome.type = "timeout"
        /\ e.result.timed_out

\* C9: when the runner of a Basic, IO or StaticAnalysis test raises OSError,
\* execute() returns normally with crash set, passed not True and score 0.
C9_CrashResult ==
    \A e \in Entries :
        (test_cases[e.index].kind \in Spawning /\ e.outcome.type = "oserror") =>
            /\ e.exc = "none"
            /\ e.result.crash
            /\ e.result.passed # "True"
            /\ e.result.score = 0

\* C10: in every result (here: of a test case with non-negative point
\* values), timed_out, crash or error set means passed is unset, and at most
\* one of timed_out, crash and error is set.
C10_FailureOutcomesDistinct ==
    \A i \in 1..Len(test_cases) :
        LET r == test_cases[i].result
        IN  NonNegative(test_cases[i]) =>
                /\ (r.timed_out \/ r.crash \/ r.error) => r.passed = "None"
                /\ ~(r.timed_out /\ r.crash)
                /\ ~(r.timed_out /\ r.error)
                /\ ~(r.crash /\ r.error)

---------------------------------------------------------------------------
(* C11 - C13 *)

\* IO test t reads ValgrindResult.xml when it grades a completed run
ReadsReport(t) == t.kind = "IO" /\ t.point_value_valgrind # 0

\* C11: when an IO test that asks for the memory analysis ran to completion
\* and ValgrindResult.xml is missing or cannot be parsed, the result has
\* error set and no parsed report, passed is not True, and the score holds
\* the base points of a correct output only, never the bonus points.
C11_BadReportIsError ==
    \A e \in Entries :
        LET t == test_cases[e.index]
        IN  (ReadsReport(t) /\ e.outcome.type = "exit"
                /\ e.file.state \in {"missing", "malformed"}) =>
                /\ e.result.error
                /\ e.result.valparse_out = {}
                /\ e.result.passed # "True"
                /\ e.result.score =
                        IF OutputMatches(t, e.outcome) THEN t.point_value_correct_out ELSE 0

\* C11 witness: bonus points configured, the output was correct and the
\* report could not be parsed
C11_Witness ==
    \E e \in Entries :
        LET t == test_cases[e.index]
        IN  /\ t.kind = "IO" /\ t.point_value_valgrind > 0
            /\ t.point_value_correct_out > 0
            /\ e.outcome.type = "exit"
            /\ OutputMatches(t, e.outcome)
            /\ e.file.state = "malformed"
            /\ e.result.error

\* C12: when an IO test that asks for the memory analysis ran to completion
\* and the report was parsed, the parsed report is kept in the result and a
\* correct output is passed exactly when the report has no error record, no
\* leak record and no fatal signal; the bonus points follow that verdict.
C12_MemoryCleanIff ==
    \A e \in Entries :
        LET t == test_cases[e.index]
            rep == e.file
            clean == rep.errs = 0 /\ rep.leaks = 0 /\ ~rep.signal
        IN  (ReadsReport(t) /\ e.outcome.type = "exit" /\ rep.state = "ok") =>
                /\ e.result.valparse_out = {rep}
                /\ ~e.result.error
                /\ e.result.output_correct =>
                        /\ e.result.passed = "True" <=> clean
                        /\ e.result.score = t.point_value_correct_out
                                + (IF clean THEN t.point_value_valgrind ELSE 0)

\* C12 witness: a correct output whose report holds a fatal signal and
\* neither an error nor a leak was not passed
C12_Witness ==
    \E e \in Entries :
        LET t == test_cases[e.index]
        IN  /\ t.kind = "IO" /\ t.point_value_valgrind > 0
            /\ e.outcome.type = "exit"
            /\ e.result.output_correct
            /\ e.file.state = "ok" /\ e.file.signal
            /\ e.file.errs = 0 /\ e.file.leaks = 0
            /\ e.result.passed = "False"

\* C13: for a Basic test whose command ran to completion, passed is True
\* exactly when the exit status equals expected_retcode and False otherwise,
\* and score is point_value when passed and 0 otherwise, whatever the command
\* printed.
C13_BasicVerdict ==
    \A e \in Entries :
        LET t == test_cases[e.index]
            ok == e.outcome.status = t.expected_retcode
        IN  (t.kind = "Basic" /\ e.outcome.type = "exit") =>
                /\ e.result.passed = (IF ok THEN "True" ELSE "False")
                /\ e.result.score = (IF ok THEN t.point_value ELSE 0)
                /\ ~e.result.timed_out /\ ~e.result.crash /\ ~e.result.error

\* C13 witness: a Basic test expecting a non-zero exit status passed with
\* its points while its command printed output
C13_Witness ==
    \E e \in Entries :
        LET t == test_cases[e.index]
        IN  /\ t.kind = "Basic" /\ e.outcome.type = "exit"
            /\ t.expected_retcode # 0
            /\ e.outcome.status = t.expected_retcode
            /\ e.outcome.stdout # <<>>
            /\ t.point_value > 0
            /\ e.result.passed = "True" /\ e.result.score = t.point_value

---------------------------------------------------------------------------
(* C14 - C16: StaticAnalysisTestCase and HeaderCheckTestCase *)

\* the prohibited headers of test t whose path occurs in a dependency listing
Listed(t, listing) ==
    {h \in t.prohibited_headers :
        \E i \in 1..Len(listing) : listing[i] = "/usr/include/" \o h}

\* C14: when the command of a StaticAnalysis test exits with a non-zero
\* status, the result after execute() has error set and passed is not True.
C14_NonZeroExitIsError ==
    \A e \in Entries :
        LET t == test_cases[e.index]
        IN  (t.kind = "Static" /\ e.outcome.type = "exit" /\ e.outcome.status # 0) =>
                /\ e.result.error
                /\ e.result.passed # "True"

\* C15: when the command of a StaticAnalysis test exits with status 0, the
\* verdict is the one the evaluator gives for the stdout the run captured:
\* passed is True exactly when the evaluator accepts that stdout, and when
\* it rejects it passed is False and the diagnostic is kept in the result.
C15_EvaluatorSeesStdout ==
    \A e \in Entries :
        LET t == test_cases[e.index]
            rejected == Listed(t, e.outcome.stdout)
        IN  (t.kind = "Static" /\ e.outcome.type = "exit" /\ e.outcome.status = 0) =>
                /\ e.result.passed = "True" <=> rejected = {}
                /\ rejected # {} =>
                        /\ e.result.passed = "False"
                        /\ e.result.stderr # <<>>

\* C16: for the banned-header check of the Autograder, when the dependency
\* listing gcc printed holds the path of a prohibited header the result is
\* not passed and the diagnostic names a prohibited header of the listing;
\* when gcc succeeded and the listing holds none, the result is passed.
C16_BannedHeaderDetected ==
    \A e \in Entries :
        LET t == test_cases[e.index]
            found == Listed(t, e.outcome.stdout)
        IN  (e.index = include_check_test_case /\ e.outcome.type = "exit") =>
                /\ found # {} =>
                        /\ e.result.passed # "True"
                        /\ \E h \in found : e.result.stderr = <<h>>
                /\ (found = {} /\ e.outcome.status = 0) => e.result.passed = "True"

---------------------------------------------------------------------------
(* C17 *)

\* what is reported for a test case: its result, and the runner and the
\* exit_status attribute the formatter reads from the test case itself
Reported(t) == [result |-> t.result, runner |-> t.runner, exit_status |-> t.exit_status]

\* test case t as its constructor left it
Pristine(t) == [t EXCEPT !.result = FreshResult, !.runner = NoRunner, !.exit_status = {}]

\* C17: what is reported for a test case (with non-negative point values)
\* the current call executed is what
\* the same execution reports for that test case when it was never executed
\* before: nothing of an earlier execution is visible after execute().
C17_NothingLeaksBetweenRuns ==
    \A e \in Entries :
        LET t == test_cases[e.index]
        IN  NonNegative(t) =>
                Reported(t) = Reported(execute(Pristine(t), e.outcome, e.file).tc)

---------------------------------------------------------------------------
(* C18, C19: the formatter *)

\* the records of results["tests"] paired with the test cases they format
Formatted ==
    IF formatter.created
    THEN {[tc |-> formatter.test_cases[k],
           item |-> (CHOOSE r \in formatter.results : TRUE).tests[k]] :
                k \in 1..Len(formatter.test_cases)}
    ELSE {}

\* C18 as stated: in every output mode a test case with has_run = FALSE is
\* formatted with exactly the text "This test was not run." as its output
\* and with no status.
C18_NotRunSentinelExact ==
    \A x \in Formatted :
        ~x.tc.result.has_run =>
            /\ x.item.output = <<NotRunText>>
            /\ x.item.status = {}

\* C18 amended: a test case with has_run = FALSE is formatted with no status
\* and with the text "This test was not run." as its whole output, which for
\* an IO test in html mode is wrapped in <i> and </i>.
C18_NotRunSentinel ==
    \A x \in Formatted :
        ~x.tc.result.has_run =>
            /\ x.item.status = {}
            /\ x.item.output =
                    IF x.tc.kind = "IO" /\ formatter.diff_format = "html"
                    THEN <<"<i>This test was not run.</i>">>
                    ELSE <<"This test was not run.">>

\* C18 witness: test cases that were not run have been formatted in html
\* mode, a static analysis among them
C18_Witness ==
    /\ formatter.created
    /\ formatter.diff_format = "html"
    /\ \E x \in Formatted : x.tc.kind = "Static" /\ ~x.tc.result.has_run

\* the sum of the scores of the test cases of a list that have run
RECURSIVE RanScores(_)
RanScores(tests) ==
    IF tests = <<>> THEN 0
    ELSE (IF Head(tests).result.has_run THEN Head(tests).result.score ELSE 0)
         + RanScores(Tail(tests))

\* C19: with hide_points false the score of the results is the sum of
\* result.score over the test cases of all source autograders, to which the
\* test cases that have not run contribute 0; the record of each test
\* carries its own score.
C19_AggregateScore ==
    (formatter.created /\ ~formatter.hide_points) =>
        /\ \A r \in formatter.results : r.score = RanScores(formatter.test_cases)
        /\ \A x \in Formatted :
                /\ x.item.score = {x.tc.result.score}
                /\ ~x.tc.result.has_run => x.tc.result.score = 0

\* C19 witness: two autograders were formatted with their points shown, a
\* test scored and a test worth points was not run
C19_Witness ==
    /\ formatter.created /\ ~formatter.hide_points
    /\ Len(formatter.test_cases) > Len(test_cases)
    /\ \E r \in formatter.results : r.score > 0
    /\ \E x \in Formatted : ~x.tc.result.has_run /\ x.tc.point_value > 0

---------------------------------------------------------------------------
(* C20 *)

\* the six ids of the launcher process
Credentials ==
    {harness.ruid, harness.euid, harness.suid, harness.rgid, harness.egid, harness.sgid}

\* C20: from the moment the launcher has passed control to the target, and
\* after every set-id call the target or a descendant makes from then on,
\* the real, effective and saved user ids and the real, effective and saved
\* group ids all are the unprivileged id 1000 and the network filter is
\* loaded.
C20_PrivilegesDroppedForGood ==
    harness.pc = "target" =>
        /\ Credentials = {1000}
        /\ harness.filter.loaded
        /\ \E rule \in harness.filter.rules : rule.syscall = "socket"

\* C20 witness: the launcher was started with the effective user id 0, has
\* passed control to the target, and a set-id call of the target was refused
C20_Witness ==
    /\ harness.pc = "target"
    /\ harness.start[2] = 0
    /\ harness.last = "EPERM"

---------------------------------------------------------------------------
(* C21, C22: the launcher *)

\* the position of a statement among the statements the launcher completed
StepAt(name) ==
    IF \E k \in 1..Len(harness.steps) : harness.steps[k] = name
    THEN CHOOSE k \in 1..Len(harness.steps) : harness.steps[k] = name
    ELSE 0

\* C21 as stated: when control is with the target, the launcher has set
\* the user and group ids first, installed the filter after them, and then
\* transferred control.
C21_IdsThenFilter ==
    harness.pc = "target" =>
        /\ 0 < StepAt("setresuid") /\ StepAt("setresuid") < StepAt("filter.load")
        /\ 0 < StepAt("setresgid") /\ StepAt("setresgid") < StepAt("filter.load")
        /\ StepAt("filter.load") < StepAt("execvp")

\* C21 amended: the launcher installs the filter first, then sets the user
\* ids, then the group ids, and transfers control to the target after all
\* three; at every moment the statements it has completed are a prefix of
\* that sequence.
C21_FilterThenIds ==
    LET order == <<"filter.load", "setresuid", "setresgid", "execvp">>
    IN  /\ Len(harness.steps) <= Len(order)
        /\ harness.steps = SubSeq(order, 1, Len(harness.steps))
        /\ harness.pc = "target" => harness.steps = order

\* C21 witness: started with the effective user id 0, the launcher has
\* transferred control to the target
C21_Witness ==
    /\ harness.pc = "target"
    /\ harness.start[2] = 0
    /\ Len(harness.steps) = 4

\* C22: every system call made after the launcher transferred control, by
\* the target or by a descendant, is answered EACCES when it is socket()
\* with the address family AF_INET or AF_INET6 and allowed otherwise.
C22_NetworkSocketsDenied ==
    (harness.pc = "target" /\ harness.syscall.name # "none") =>
        harness.syscall.result =
            IF harness.syscall.name = "socket"
                    /\ harness.syscall.arg0 \in {"AF_INET", "AF_INET6"}
            THEN "EACCES" ELSE "ALLOW"

\* C22 witness: a descendant of the target asked for an IPv6 socket and
\* got EACCES
C22_Witness ==
    /\ harness.pc = "target"
    /\ harness.generation > 0
    /\ harness.syscall.name = "socket" /\ harness.syscall.arg0 = "AF_INET6"
    /\ harness.syscall.result = "EACCES"

---------------------------------------------------------------------------
(* C27, C28: what an aborted run leaves *)

\* C27: when execute() has returned after a gating test of that call ended
\* not passed, every test placed after the gate is not run: has_run is
\* FALSE and the score is 0, also when an earlier call executed the test.
C27_AbortedRunLeavesNotRun ==
    (status = "returned" /\ aborted_at # 0) =>
        \A i \in (aborted_at + 1)..Len(test_cases) :
            /\ ~test_cases[i].result.has_run
            /\ test_cases[i].result.score = 0

\* C28: a gating test whose execution ended with passed unset (timed out,
\* crashed, or failed before a verdict) is the last test its execute() call
\* executes, and when its execute() returned the loop stopped at the gate
\* as it does for a failed one.
C28_NoVerdictAborts ==
    \A k \in 1..Len(executed) :
        (executed[k].index \in Gates /\ executed[k].result.passed = "None") =>
            /\ k = Len(executed)
            /\ status = "running" => pc = executed[k].index
            /\ executed[k].exc = "none" => aborted_at = executed[k].index

\* C28 witness: execute() returned after the build gate timed out with
\* tests placed after it, none of which ran
C28_Witness ==
    /\ status = "returned"
    /\ build_test_case # 0 /\ aborted_at = build_test_case
    /\ test_cases[build_test_case].result.timed_out
    /\ test_cases[build_test_case].result.passed = "None"
    /\ Len(test_cases) > build_test_case
    /\ \A i \in (build_test_case + 1)..Len(test_cases) : ~test_cases[i].result.has_run

---------------------------------------------------------------------------
(* C29: verdict and score *)

\* C29: for a Basic, IO or StaticAnalysis test with a non-negative point
\* value, a result with passed = TRUE has score = point_value, and a result
\* with a positive score has has_run = TRUE.
C29_PassedScoresPointValue ==
    \A i \in 1..Len(test_cases) :
        LET t == test_cases[i]
        IN  (t.kind \in {"Basic", "IO", "Static"} /\ NonNegative(t)) =>
                /\ t.result.passed = "True" => t.result.score = t.point_value
                /\ t.result.score > 0 => t.result.has_run

---------------------------------------------------------------------------
(* C25, C30: what the formatted record says of a timeout and of a run *)

\* the lines by which the formatter says that a test timed out
TimeoutTexts ==
    {"Test case timed out with limit = 1.",
     "Test case timed out with limit = {test.timeout}.",
     "<i>Test case timed out with limit = 1.</i>"}

\* the lines of a formatted output
Lines(output) == {output[k] : k \in 1..Len(output)}

\* C25: in every output mode the record of a test that has run and timed
\* out states that it timed out, and is not the record of a failed test:
\* its status is not "failed" and its output has no "Test FAILED" line.
C25_TimeoutReportedDistinctly ==
    \A x \in Formatted :
        (x.tc.result.has_run /\ x.tc.result.timed_out) =>
            /\ Lines(x.item.output) \cap TimeoutTexts # {}
            /\ "Test FAILED" \notin Lines(x.item.output)
            /\ x.item.status # {"failed"}

\* C30: in every output mode the record of a test whose result has
\* has_run = TRUE does not carry the not-run sentinel, plain or in italics.
C30_SentinelOnlyForNotRun ==
    \A x \in Formatted :
        (x.tc.result.has_run /\ NonNegative(x.tc)) =>
            Lines(x.item.output) \cap {NotRunText, "<i>" \o NotRunText \o "</i>"} = {}

---------------------------------------------------------------------------
(* C23: the sandbox belongs to the student before a test runs *)

\* C23: while the loop of execute() runs, and whenever the current call
\* has executed a test, the sandbox directory and every file and directory
\* copied into it are owned by the student account, and every supplied item
\* is in the sandbox; the directory is owned by the student from the
\* construction on.
C23_SandboxOwnedBeforeTests ==
    /\ sandbox.owner = "student"
    /\ (status = "running" \/ Len(executed) > 0) =>
            /\ \A f \in sandbox.files : f.owner = "student"
            /\ \A item \in supplied_files : \E f \in sandbox.files : f.name = item

\* C23 witness: the first test of a call has executed with a file of the
\* submission and a supplied directory in the sandbox
C23_Witness ==
    /\ Len(executed) = 1
    /\ \E f \in sandbox.files : f.origin = "submission"
    /\ \E f \in sandbox.files : f.name \in Directories /\ f.origin = "tests"

---------------------------------------------------------------------------
(* C24, C26: the tests of the Autograder and of the bulk loader *)

\* the value of student that a test of this class gets when none is given
StudentDefault(kind) ==
    CASE kind = "Basic" -> BasicTestCase_student
      [] kind = "IO" -> IOTestCase_student
      [] kind = "Static" -> StaticAnalysisTestCase_student
      [] OTHER -> FALSE

\* C24: whenever the build gate, the banned-header gate or a bulk-loaded
\* IO test (with or without the memory analyzer) has built its runner, the
\* runner spawns the command through the launcher; so does the runner of a
\* Basic, IO or StaticAnalysis test whose student attribute is the one it
\* gets when the argument is not given, and that value is True.
C24_SubmissionRunsThroughLauncher ==
    /\ \A kind \in {"Basic", "IO", "Static"} : StudentDefault(kind)
    /\ \A i \in 1..Len(test_cases) :
        LET t == test_cases[i]
        IN  (/\ t.runner.present
             /\ \/ i \in {build_test_case, include_check_test_case}
                \/ i \in loader.registered
                \/ t.student = StudentDefault(t.kind)) =>
                through_launcher(t.runner)

\* C24 witness: the build gate and a bulk-loaded test that runs under the
\* memory analyzer have both run through the launcher
C24_Witness ==
    /\ build_test_case # 0
    /\ through_launcher(test_cases[build_test_case].runner)
    /\ \E i \in loader.registered :
        /\ get_execute_command(test_cases[i])
        /\ test_cases[i].runner.exit_status # {}
        /\ through_launcher(test_cases[i].runner)

\* C26: after a call of add() through io_tests_bulk_loader() the test is
\* registered whether the status file exists or not, and its expected exit
\* status is the integer of the file, or none when there is no file.
C26_StatusFileOptional ==
    loader.called =>
        /\ loader.exc = "none"
        /\ loader.index \in 1..Len(test_cases)
        /\ test_cases[loader.index].exp_exit_status = loader.status_file

---------------------------------------------------------------------------
(* C32: the launcher started by root *)

\* C32: a launcher started with all user and group ids 0 never ends in an
\* error of one of its steps: the filter is loaded, the user ids and then
\* the group ids are set, each without error.
C32_RootLauncherCompletes ==
    harness.start = <<0, 0, 0, 0, 0, 0>> => harness.pc # "failed"

---------------------------------------------------------------------------
(* C33: the working directory *)

\* C33: while execute() runs the working directory is the sandbox, and
\* when execute() has been left, by return or by an exception, the working
\* directory is the one that was current when it was called.
C33_WorkingDirectoryRestored ==
    /\ status = "running" => cwd = "/tmp/sandbox"
    /\ Left => cwd = saved_cwd

---------------------------------------------------------------------------
(* C34: a name that is both required and supplied *)

\* the current call raised before its first test
RaisedInCopy == status = "raised" /\ Len(executed) = 0

---------------------------------------------------------------------------
(* C31: the memory report an IO test reads *)

\* C31: whenever an IO test read ValgrindResult.xml to grade a completed
\* run, its command ran under the memory analyzer in that execute() call
\* and the file it read is the report that run wrote.
C31_ReportReadIsOwn ==
    \A e \in Entries :
        LET t == test_cases[e.index]
        IN  (ReadsReport(t) /\ e.outcome.type = "exit") =>
                /\ get_execute_command(t)
                /\ e.file = e.outcome.report

---------------------------------------------------------------------------
(* C35: AnsiDiff._should_visualize_whitespace *)

\* C35: for every pair of files, _should_visualize_whitespace answers True
\* exactly when the files differ and are equal once every character that is
\* whitespace or not printable is taken out, wherever the line breaks are.
C35_WhitespaceOnlyDifference ==
    ansi_diff.built =>
        (ansi_diff.whitespace_shown <=>
            /\ ansi_diff.expected # ansi_diff.actual
            /\ contract(ansi_diff.expected) = contract(ansi_diff.actual))

====
